---------------------------- MODULE Spec2Model ----------------------------
(***************************************************************************)
(* Model of the project metadata storage server (src/app.js): the POST     *)
(* /store route (multer upload middleware, request handler, error          *)
(* middleware) over a filesystem made of the temporary upload directory    *)
(* tmp/uploads and the storage tree <STORAGE_DIR>/<chainID>/<tokenAddress>. *)
(* Every request is an independent process; a step of a request is one     *)
(* awaited filesystem operation together with the synchronous code around  *)
(* it, so requests interleave at the awaits. The 201 response is a step of *)
(* its own: the handler resumes after the metadata write in a later turn   *)
(* of the event loop. A filesystem operation that fails leaves the         *)
(* filesystem as it was.                                                   *)
(***************************************************************************)
EXTENDS Naturals, Sequences, FiniteSets, TLC

VARIABLES
  pc,       \* pc[r]: where request r is in the route
  req,      \* req[r]: the submitted multipart body and file part
  resp,     \* resp[r]: the response sent for r (status 0: none yet)
  sent,     \* sent[r]: how many responses were sent for r
  staged,   \* requests for which multer set req.file (a file was staged)
  tmp,      \* requests whose staged file is present in tmp/uploads
  store,    \* store[d]: the project directory d of the storage tree
  now,      \* the clock read by new Date()
  existed,  \* existed[r]: what fs.pathExists(metadataPath) answered to r
  failed,   \* failed[r]: the awaited operation that threw in r's handler
  cleanup,  \* cleanup[r]: outcome of the catch block's fs.remove
  prior     \* prior[r]: the requests already answered when r was submitted

vars == <<pc, req, resp, sent, staged, tmp, store, now, existed, failed, cleanup, prior>>

-----------------------------------------------------------------------------
(* Bounds of the model *)

NumRequests == 2

MaxClock == 1

NumRetryRequests == 3

\* The requests of a behaviour: those the initial state makes room for
Requests == DOMAIN pc

-----------------------------------------------------------------------------
(* Program constants *)

MAX_IMAGE_SIZE_MB == 3

MAX_IMAGE_SIZE_BYTES == MAX_IMAGE_SIZE_MB * 1024 * 1024

BACKEND_DOMAIN == "https://metastorage.poodl.org"

STORAGE_DIR == "storage"

allowedTypes == {"image/jpeg", "image/png", "image/gif"}

imageExtensions == {".jpg", ".jpeg", ".png", ".gif"}

requiredFields == <<"projectName", "projectDescription", "chainID", "tokenAddress">>

optionalFields == <<"website", "twitter", "telegram", "discord">>

-----------------------------------------------------------------------------
(* Request inputs *)

\* A field that is not in the multipart body: req.body[field] is undefined.
Undefined == "<undefined>"

\* imageUrl: null
Null == "<null>"

\* No file part named image: req.file is undefined.
NoFile == [mimetype |-> Undefined, ext |-> "", size |-> 0]

Png == [mimetype |-> "image/png", ext |-> ".png", size |-> 10240]

Gif == [mimetype |-> "image/gif", ext |-> ".gif", size |-> 10240]

Txt == [mimetype |-> "text/plain", ext |-> ".txt", size |-> 10240]

BigPng == [mimetype |-> "image/png", ext |-> ".png", size |-> 5 * 1024 * 1024]

Files == {NoFile, Png, Gif, Txt, BigPng}

\* Images of an accepted type whose original name ends in upper case, in an
\* extension that is not an image extension, or in no extension
PngUpper == [mimetype |-> "image/png", ext |-> ".PNG", size |-> 10240]

PngNamedWebp == [mimetype |-> "image/png", ext |-> ".webp", size |-> 10240]

PngNoExt == [mimetype |-> "image/png", ext |-> "", size |-> 10240]

ChainIDs == {"1"}

TokenAddresses == {"0xA", "0xB"}

\* A submission of all fields for the key ("1", tokenAddress)
FullBody(projectName, tokenAddress) ==
  [projectName |-> projectName,
   projectDescription |-> "Bar",
   chainID |-> "1",
   tokenAddress |-> tokenAddress,
   website |-> "https://foo.org",
   twitter |-> Undefined,
   telegram |-> "",
   discord |-> "foo#1"]

\* Submissions that leave out required fields (absent, or sent empty)
IncompleteBodies ==
  {[FullBody("Foo", "0xA") EXCEPT !.projectName = Undefined],
   [FullBody("Foo", "0xA") EXCEPT !.chainID = ""],
   [FullBody("Foo", "0xA") EXCEPT !.projectName = "", !.tokenAddress = Undefined]}

Bodies ==
  {FullBody("Foo", t) : t \in TokenAddresses} \cup {FullBody("Baz", "0xA")}
    \cup IncompleteBodies

NoBody == [f \in {requiredFields[i] : i \in 1..4} \cup {optionalFields[i] : i \in 1..4}
             |-> Undefined]

-----------------------------------------------------------------------------
(* Pure parts of the handler *)

\* !req.body[field]: undefined and the empty string are both falsy.
Falsy(v) == v = Undefined \/ v = ""

\* A check that reports only the first missing field.
missingFieldsFirstOnly(body) ==
  SubSeq(SelectSeq(requiredFields, LAMBDA f : Falsy(body[f])), 1, 1)

\* requiredFields.filter(field => !req.body[field])
missingFields(body) == SelectSeq(requiredFields, LAMBDA f : Falsy(body[f]))

\* missingFields.join(', ')
RECURSIVE Join(_)
Join(s) ==
  IF s = <<>> THEN ""
  ELSE IF Len(s) = 1 THEN s[1]
  ELSE s[1] \o ", " \o Join(Tail(s))

\* An omitted optional field stored as it came (undefined).
OrEmptyKeepsUndefined(v) == v

\* req.body.website || ''
OrEmpty(v) == IF Falsy(v) THEN "" ELSE v

\* path.join(STORAGE_DIR, req.body.chainID, req.body.tokenAddress): the segments
\* joined by the separator (the components the model submits have no empty,
\* "." or ".." segment for path.join to normalise away)
projectDir(body) == STORAGE_DIR \o "/" \o body.chainID \o "/" \o body.tokenAddress

\* `${BACKEND_DOMAIN}/storage/${chainID}/${tokenAddress}/${name}`
publicUrl(body, name) ==
  BACKEND_DOMAIN \o "/storage/" \o body.chainID \o "/" \o body.tokenAddress \o "/" \o name

metadataUrl(body) == publicUrl(body, "metadata.json")

\* `project-image${path.extname(req.file.originalname)}`
imageFilename(file) == "project-image" \o file.ext

\* String.prototype.toLowerCase on the extensions the model uses
toLowerCase(ext) ==
  CASE ext = ".PNG" -> ".png"
    [] ext = ".GIF" -> ".gif"
    [] ext = ".JPG" -> ".jpg"
    [] ext = ".JPEG" -> ".jpeg"
    [] OTHER -> ext

\* A fileFilter that accepts every declared type.
fileFilterAcceptsAll(file) == TRUE

\* multer's fileFilter: allowedTypes.includes(file.mimetype)
fileFilter(file) == file.mimetype \in allowedTypes

\* An upload configured without limits.fileSize.
withinLimitUnlimited(file) == TRUE

\* multer's limits.fileSize
withinLimit(file) == file.size <= MAX_IMAGE_SIZE_BYTES

-----------------------------------------------------------------------------
(* The filesystem *)

\* Keys <<chainID, tokenAddress>> with a path separator in a component
SlashKeys == {<<"1/2", "3">>, <<"1", "2/3">>}

\* The directories path.join(STORAGE_DIR, chainID, tokenAddress) of the keys
ProjectDirs ==
  {STORAGE_DIR \o "/" \o c \o "/" \o t : c \in ChainIDs, t \in TokenAddresses}
    \cup {STORAGE_DIR \o "/" \o k[1] \o "/" \o k[2] : k \in SlashKeys}

NoMeta == [projectName |-> Undefined]

EmptyDir == [dir |-> FALSE, images |-> {}, metadata |-> NoMeta]

\* An existence check that never finds the record.
pathExistsNever(d) == FALSE

\* An existence check satisfied by any file in the project directory.
pathExistsAnyFile(d) == store[d].images # {} \/ store[d].metadata # NoMeta

\* fs.pathExists(metadataPath)
pathExists(d) == store[d].metadata # NoMeta

\* the files of projectDir whose lower-cased extension is an image extension
imageFiles(d) == {f \in store[d].images : toLowerCase(f.ext) \in imageExtensions}

NoResponse ==
  [status |-> 0, success |-> FALSE, message |-> "", missing |-> <<>>,
   metadataUrl |-> Null, imageUrl |-> Null, existing |-> FALSE]

\* res.status(status).json({success, message or error, ...})
Response(status, success, message) ==
  [status |-> status, success |-> success, message |-> message, missing |-> <<>>,
   metadataUrl |-> Null, imageUrl |-> Null, existing |-> FALSE]

-----------------------------------------------------------------------------
(* Initial state: no request yet, empty directories (lines 88-97) *)

\* The server after start, with room for n requests
InitWith(n) ==
  /\ pc = [r \in 1..n |-> "idle"]
  /\ req = [r \in Requests |-> [body |-> NoBody, file |-> NoFile]]
  /\ resp = [r \in Requests |-> NoResponse]
  /\ sent = [r \in Requests |-> 0]
  /\ staged = {}
  /\ tmp = {}
  /\ store = [d \in ProjectDirs |-> EmptyDir]
  /\ now = 0
  /\ existed = [r \in Requests |-> "unchecked"]
  /\ failed = [r \in Requests |-> "none"]
  /\ cleanup = [r \in Requests |-> "none"]
  /\ prior = [r \in Requests |-> {}]

Init == InitWith(NumRequests)

-----------------------------------------------------------------------------
(* The route POST /store *)

\* res.status(s).json(body): the request is answered
Answer(r, response) ==
  /\ resp' = [resp EXCEPT ![r] = response]
  /\ sent' = [sent EXCEPT ![r] = @ + 1]
  /\ pc' = [pc EXCEPT ![r] = "done"]

\* A client sends POST /store with a multipart body and at most one file.
\* Requests are numbered in their order of arrival.
Submit(r, body, file) ==
  /\ pc[r] = "idle"
  /\ \A q \in Requests : q < r => pc[q] # "idle"
  /\ req' = [req EXCEPT ![r] = [body |-> body, file |-> file]]
  /\ prior' = [prior EXCEPT ![r] = {q \in Requests : pc[q] = "done"}]
  /\ pc' = [pc EXCEPT ![r] = "upload"]
  /\ UNCHANGED <<resp, sent, staged, tmp, store, now, existed, failed, cleanup>>

\* req.file?.path: multer set req.file, the staged file's path is known
hasFilePath(r) == r \in staged

\* The error handling middleware (lines 258-301) applied to an error passed to
\* next(err): kind is the error's class, message its message.
errorMiddleware(kind, message) ==
  IF kind = "MulterError" THEN Response(400, FALSE, "File upload error")
  ELSE IF message = "Not allowed by CORS"
    THEN Response(403, FALSE, "CORS policy blocked this request")
  ELSE Response(500, FALSE, "Internal server error")

\* upload.single('image') (lines 51-86): the file part goes through fileFilter,
\* is written under tmp/uploads by diskStorage and is cut off by limits.fileSize
\* (multer then removes what it wrote and fails with LIMIT_FILE_SIZE). An error
\* goes to the error middleware; otherwise req.file is set and the handler starts.
Upload(r) ==
  /\ pc[r] = "upload"
  /\ LET file == req[r].file IN
     \/ /\ file = NoFile
        /\ pc' = [pc EXCEPT ![r] = "fields"]
        /\ UNCHANGED <<resp, sent, staged, tmp, failed>>
     \/ /\ file # NoFile
        /\ ~fileFilter(file)
        /\ Answer(r, errorMiddleware("Error", "Invalid file type"))
        /\ UNCHANGED <<staged, tmp, failed>>
     \/ /\ file # NoFile
        /\ fileFilter(file)
        /\ \E ok \in BOOLEAN :
             IF ~ok
               THEN \* fs.ensureDir(uploadDir) rejected: cb(err)
                    /\ Answer(r, errorMiddleware("Error", "EACCES"))
                    /\ failed' = [failed EXCEPT ![r] = "upload"]
                    /\ UNCHANGED <<staged, tmp>>
             ELSE IF ~withinLimit(file)
               THEN /\ Answer(r, errorMiddleware("MulterError", "LIMIT_FILE_SIZE"))
                    /\ UNCHANGED <<staged, tmp, failed>>
             ELSE /\ staged' = staged \cup {r}
                  /\ tmp' = tmp \cup {r}
                  /\ pc' = [pc EXCEPT ![r] = "fields"]
                  /\ UNCHANGED <<resp, sent, failed>>
  /\ UNCHANGED <<req, store, now, existed, cleanup, prior>>

\* Lines 124-145: the required-field check.
ValidateFields(r) ==
  /\ pc[r] = "fields"
  /\ LET missing == missingFields(req[r].body) IN
     IF Len(missing) > 0
       THEN Answer(r, [Response(400, FALSE, "Missing required fields: " \o Join(missing))
                         EXCEPT !.missing = missing])
       ELSE /\ pc' = [pc EXCEPT ![r] = "exists"]
            /\ UNCHANGED <<resp, sent>>
  /\ UNCHANGED <<req, staged, tmp, store, now, existed, failed, cleanup, prior>>

\* The file-presence gate consulted before the existence check.
nextAfterExistsFileFirst(exists, hasFile) ==
  IF ~hasFile THEN "imageRequired"
  ELSE IF exists THEN "readBack"
  ELSE "ensureDir"

\* The existence answer ignored when a file was uploaded.
nextAfterExistsOnlyWithoutFile(exists, hasFile) ==
  IF hasFile THEN "ensureDir"
  ELSE IF exists THEN "readBack"
  ELSE "imageRequired"

\* The creation path entered without the !req.file rejection.
nextAfterExistsNoImageGate(exists, hasFile) ==
  IF exists THEN "readBack" ELSE "ensureDir"

\* Lines 155-186: where the handler goes once fs.pathExists has answered: the
\* existing-project branch, the !req.file rejection, or the creation path.
nextAfterExists(exists, hasFile) ==
  IF exists THEN "readBack"
  ELSE IF ~hasFile THEN "imageRequired"
  ELSE "ensureDir"

\* Lines 147-155 and 176-182: await fs.pathExists(metadataPath); when it answers
\* false the handler goes on to the !req.file check.
CheckExists(r) ==
  /\ pc[r] = "exists"
  /\ LET exists == pathExists(projectDir(req[r].body))
         next == nextAfterExists(exists, r \in staged) IN
     /\ existed' = [existed EXCEPT ![r] = IF exists THEN "yes" ELSE "no"]
     /\ IF next = "imageRequired"
          THEN Answer(r, Response(400, FALSE, "Project image is required"))
          ELSE /\ pc' = [pc EXCEPT ![r] = next]
               /\ UNCHANGED <<resp, sent>>
  /\ UNCHANGED <<req, staged, tmp, store, now, failed, cleanup, prior>>

\* Lines 156-173: fs.readJson, fs.readdir, files.find and the 200 response.
\* readdir lists the directory in the order the filesystem keeps it, so find
\* returns any of the image files when there are several.
ReadBack(r) ==
  /\ pc[r] = "readBack"
  /\ LET d == projectDir(req[r].body)
         body == req[r].body IN
     \/ \E op \in {"readJson", "readdir"} :
          /\ failed' = [failed EXCEPT ![r] = op]
          /\ pc' = [pc EXCEPT ![r] = "catch"]
          /\ UNCHANGED <<resp, sent>>
     \/ /\ imageFiles(d) = {}
        /\ Answer(r, [Response(200, TRUE, "Project already exists")
                        EXCEPT !.metadataUrl = metadataUrl(body),
                               !.imageUrl = Null,
                               !.existing = TRUE])
        /\ UNCHANGED failed
     \/ \E f \in imageFiles(d) :
          /\ Answer(r, [Response(200, TRUE, "Project already exists")
                          EXCEPT !.metadataUrl = metadataUrl(body),
                                 !.imageUrl = publicUrl(body, f.name),
                                 !.existing = TRUE])
          /\ UNCHANGED failed
  /\ UNCHANGED <<req, staged, tmp, store, now, existed, cleanup, prior>>

\* Line 186: await fs.ensureDir(projectDir)
EnsureDir(r) ==
  /\ pc[r] = "ensureDir"
  /\ LET d == projectDir(req[r].body) IN
     \E ok \in BOOLEAN :
       IF ok
         THEN /\ store' = [store EXCEPT ![d].dir = TRUE]
              /\ pc' = [pc EXCEPT ![r] = "move"]
              /\ UNCHANGED failed
         ELSE /\ failed' = [failed EXCEPT ![r] = "ensureDir"]
              /\ pc' = [pc EXCEPT ![r] = "catch"]
              /\ UNCHANGED store
  /\ UNCHANGED <<req, resp, sent, staged, tmp, now, existed, cleanup, prior>>

\* Lines 189-194: await fs.move(req.file.path, imagePath). fs.move does not
\* overwrite: it throws 'dest already exists.' when imagePath is occupied.
MoveImage(r) ==
  /\ pc[r] = "move"
  /\ LET d == projectDir(req[r].body)
         name == imageFilename(req[r].file)
         occupied == \E f \in store[d].images : f.name = name IN
     \E ok \in BOOLEAN :
       IF ok /\ ~occupied
         THEN /\ store' = [store EXCEPT ![d].images =
                             @ \cup {[name |-> name, ext |-> req[r].file.ext, content |-> r]}]
              /\ tmp' = tmp \ {r}
              /\ pc' = [pc EXCEPT ![r] = "write"]
              /\ UNCHANGED failed
         ELSE /\ failed' = [failed EXCEPT ![r] = "move"]
              /\ pc' = [pc EXCEPT ![r] = "catch"]
              /\ UNCHANGED <<store, tmp>>
  /\ UNCHANGED <<req, resp, sent, staged, now, existed, cleanup, prior>>

\* Lines 197-209: the metadata object; createdAt and updatedAt are two reads of
\* the clock.
metadataOf(body, file, t1, t2) ==
  [projectName |-> body.projectName,
   projectDescription |-> body.projectDescription,
   chainID |-> body.chainID,
   tokenAddress |-> body.tokenAddress,
   website |-> OrEmpty(body.website),
   twitter |-> OrEmpty(body.twitter),
   telegram |-> OrEmpty(body.telegram),
   discord |-> OrEmpty(body.discord),
   imageUrl |-> publicUrl(body, imageFilename(file)),
   createdAt |-> t1,
   updatedAt |-> t2]

\* A failed write that leaves a truncated metadata.json behind.
writeJsonTruncating(d, metadata, ok) ==
  [store EXCEPT ![d].metadata = IF ok THEN metadata ELSE [NoMeta EXCEPT !.projectName = ""]]

\* Line 213: fs.writeJson(metadataPath, metadata): the storage tree after it;
\* a write that fails leaves the tree as it was.
writeJson(d, metadata, ok) ==
  IF ok THEN [store EXCEPT ![d].metadata = metadata] ELSE store

\* Lines 196-213: build the metadata and await fs.writeJson(metadataPath, ...)
WriteMetadata(r) ==
  /\ pc[r] = "write"
  /\ LET d == projectDir(req[r].body) IN
     \E t1 \in now..MaxClock : \E t2 \in t1..MaxClock : \E ok \in BOOLEAN :
       /\ now' = t2
       /\ store' = writeJson(d, metadataOf(req[r].body, req[r].file, t1, t2), ok)
       /\ IF ok
            THEN /\ pc' = [pc EXCEPT ![r] = "respond"]
                 /\ UNCHANGED failed
            ELSE /\ failed' = [failed EXCEPT ![r] = "writeJson"]
                 /\ pc' = [pc EXCEPT ![r] = "catch"]
  /\ UNCHANGED <<req, resp, sent, staged, tmp, existed, cleanup, prior>>

\* Lines 215-222: the handler resumes after the write and answers 201.
Respond201(r) ==
  /\ pc[r] = "respond"
  /\ Answer(r, [Response(201, TRUE, "Project metadata stored successfully")
                  EXCEPT !.metadataUrl = metadataUrl(req[r].body),
                         !.imageUrl = publicUrl(req[r].body, imageFilename(req[r].file))])
  /\ UNCHANGED <<req, staged, tmp, store, now, existed, failed, cleanup, prior>>

\* The cleanup left out of the catch block.
removeSkipped(r, ok) == tmp

\* Line 230: fs.remove(req.file.path): the temp directory after it; removing a
\* path that is no longer there succeeds and changes nothing.
remove(r, ok) == IF ok THEN tmp \ {r} ELSE tmp

\* A response that a failed cleanup replaces by the generic server error.
catchResponseMasked(cleaned) ==
  IF cleaned THEN Response(500, FALSE, "Failed to store project metadata")
  ELSE Response(500, FALSE, "Internal server error")

\* Lines 237-244: the catch block's response, sent after the cleanup whether or
\* not the cleanup succeeded.
catchResponse(cleaned) == Response(500, FALSE, "Failed to store project metadata")

\* Lines 224-245: the catch block: fs.remove(req.file.path) when a file was
\* staged (a failure of the removal is logged and swallowed), then 500.
Catch(r) ==
  /\ pc[r] = "catch"
  /\ IF hasFilePath(r)
       THEN \E ok \in BOOLEAN :
              /\ tmp' = remove(r, ok)
              /\ cleanup' = [cleanup EXCEPT ![r] = IF ok THEN "removed" ELSE "failed"]
              /\ Answer(r, catchResponse(ok))
       ELSE /\ UNCHANGED <<tmp, cleanup>>
            /\ Answer(r, catchResponse(TRUE))
  /\ UNCHANGED <<req, staged, store, now, existed, failed, prior>>

Next ==
  \E r \in 1..NumRequests :
    \/ \E body \in Bodies, file \in Files : Submit(r, body, file)
    \/ Upload(r)
    \/ ValidateFields(r)
    \/ CheckExists(r)
    \/ ReadBack(r)
    \/ EnsureDir(r)
    \/ MoveImage(r)
    \/ WriteMetadata(r)
    \/ Respond201(r)
    \/ Catch(r)

Spec == Init /\ [][Next]_vars

-----------------------------------------------------------------------------
(* Retries: three requests for one key, each with a complete body and either
   no image or an image of an accepted type *)

RetryFiles == {NoFile, Png, Gif}

InitRetry == InitWith(NumRetryRequests)

NextRetry ==
  \E r \in 1..NumRetryRequests :
    \/ \E file \in RetryFiles : Submit(r, FullBody("Foo", "0xA"), file)
    \/ Upload(r)
    \/ ValidateFields(r)
    \/ CheckExists(r)
    \/ ReadBack(r)
    \/ EnsureDir(r)
    \/ MoveImage(r)
    \/ WriteMetadata(r)
    \/ Respond201(r)
    \/ Catch(r)

SpecRetry == InitRetry /\ [][NextRetry]_vars

-----------------------------------------------------------------------------
(* Required fields: two requests whose required fields are each absent,
   empty or supplied *)

RequiredFieldBodies ==
  {[FullBody("Foo", "0xA") EXCEPT !.projectName = n, !.projectDescription = d,
                                  !.chainID = c, !.tokenAddress = t] :
     n \in {Undefined, "", "Foo"}, d \in {Undefined, "", "Bar"},
     c \in {Undefined, "", "1"}, t \in {Undefined, "", "0xA"}}

FieldFiles == {NoFile, Png}

NextFields ==
  \E r \in 1..NumRequests :
    \/ \E body \in RequiredFieldBodies, file \in FieldFiles : Submit(r, body, file)
    \/ Upload(r)
    \/ ValidateFields(r)
    \/ CheckExists(r)
    \/ ReadBack(r)
    \/ EnsureDir(r)
    \/ MoveImage(r)
    \/ WriteMetadata(r)
    \/ Respond201(r)
    \/ Catch(r)

SpecFields == Init /\ [][NextFields]_vars

-----------------------------------------------------------------------------
(* Optional fields: two requests for one key whose optional fields are absent,
   empty or supplied; the bodies are those in which at most one optional
   field differs in this from the other three *)

Absent(v) == v = Undefined

Empty(v) == v = ""

OptionalFieldBodies ==
  {b \in {[FullBody("Foo", "0xA") EXCEPT !.website = w, !.twitter = x,
                                         !.telegram = g, !.discord = c] :
            w \in {Undefined, "", "https://foo.org"}, x \in {Undefined, "", "@foo"},
            g \in {Undefined, "", "t.me/foo"}, c \in {Undefined, "", "foo#1"}} :
     \E f \in 1..4 : \A i, j \in (1..4) \ {f} :
       /\ Absent(b[optionalFields[i]]) = Absent(b[optionalFields[j]])
       /\ Empty(b[optionalFields[i]]) = Empty(b[optionalFields[j]])}

NextOptional ==
  \E r \in 1..NumRequests :
    \/ \E body \in OptionalFieldBodies, file \in RetryFiles : Submit(r, body, file)
    \/ Upload(r)
    \/ ValidateFields(r)
    \/ CheckExists(r)
    \/ ReadBack(r)
    \/ EnsureDir(r)
    \/ MoveImage(r)
    \/ WriteMetadata(r)
    \/ Respond201(r)
    \/ Catch(r)

SpecOptional == Init /\ [][NextOptional]_vars

-----------------------------------------------------------------------------
(* Keys: two requests whose keys are ("1", "0xA") or have a path separator in
   chainID or in tokenAddress *)

KeyBodies ==
  {[FullBody("Foo", k[2]) EXCEPT !.chainID = k[1]] : k \in SlashKeys \cup {<<"1", "0xA">>}}

NextKeys ==
  \E r \in 1..NumRequests :
    \/ \E body \in KeyBodies, file \in FieldFiles : Submit(r, body, file)
    \/ Upload(r)
    \/ ValidateFields(r)
    \/ CheckExists(r)
    \/ ReadBack(r)
    \/ EnsureDir(r)
    \/ MoveImage(r)
    \/ WriteMetadata(r)
    \/ Respond201(r)
    \/ Catch(r)

SpecKeys == Init /\ [][NextKeys]_vars

-----------------------------------------------------------------------------
(* File names: two requests for one key whose image, of an accepted type, has
   an original name with any extension *)

NamedFiles == {NoFile, Png, PngUpper, PngNamedWebp, PngNoExt}

NextNames ==
  \E r \in 1..NumRequests :
    \/ \E file \in NamedFiles : Submit(r, FullBody("Foo", "0xA"), file)
    \/ Upload(r)
    \/ ValidateFields(r)
    \/ CheckExists(r)
    \/ ReadBack(r)
    \/ EnsureDir(r)
    \/ MoveImage(r)
    \/ WriteMetadata(r)
    \/ Respond201(r)
    \/ Catch(r)

SpecNames == Init /\ [][NextNames]_vars

-----------------------------------------------------------------------------
(* What the properties speak of *)

Done(r) == pc[r] = "done"

\* r's body has every required field, present and non-empty
AllFields(r) ==
  \A i \in 1..Len(requiredFields) : req[r].body[requiredFields[i]] \notin {Undefined, ""}

\* r's body names a key: chainID and tokenAddress are present and non-empty
HasKey(r) ==
  /\ req[r].body.chainID \notin {Undefined, ""}
  /\ req[r].body.tokenAddress \notin {Undefined, ""}

\* the project directory of r's key
KeyDir(r) == STORAGE_DIR \o "/" \o req[r].body.chainID \o "/" \o req[r].body.tokenAddress

\* Exists(k): metadata.json is present in the key's directory d
HasMetadata(d) == store[d].metadata # NoMeta

\* r's fs.writeJson has succeeded
Wrote(r) == pc[r] = "respond" \/ (Done(r) /\ resp[r].status = 201)

\* r carries a file part of an unsupported type, or one over the size limit
BadType(r) == req[r].file # NoFile /\ req[r].file.mimetype \notin allowedTypes

Oversized(r) == req[r].file # NoFile /\ req[r].file.size > MAX_IMAGE_SIZE_BYTES

\* r was submitted after a request for the same key had been answered 201
AfterCreation(r) ==
  /\ HasKey(r)
  /\ \E q \in prior[r] : resp[q].status = 201 /\ KeyDir(q) = KeyDir(r)

\* an awaited operation of r's handler threw
HandlerFailed(r) == failed[r] \in {"readJson", "readdir", "ensureDir", "move", "writeJson"}

-----------------------------------------------------------------------------
(* C1 *)

\* C1: a request that staged an image and is answered 200 'Project already
\* exists' has no staged file left in tmp/uploads once it has completed.
C1_ExistingCleanup ==
  \A r \in Requests :
    (Done(r) /\ r \in staged /\ resp[r].status = 200) => r \notin tmp

(* C2 *)

\* C2: a request that staged an image and is rejected by the required-field
\* check (400 'Missing required fields') has no staged file left in tmp/uploads
\* once it has completed.
C2_ValidationCleanup ==
  \A r \in Requests :
    (Done(r) /\ r \in staged /\ resp[r].status = 400 /\ resp[r].missing # <<>>)
      => r \notin tmp

(* C3 *)

\* C3 as claimed: after a handler operation failed (before the image was moved)
\* and the request answered 500, the staged file is absent from tmp/uploads.
C3_Original ==
  \A r \in Requests :
    (Done(r) /\ r \in staged /\ HandlerFailed(r) /\ failed[r] # "writeJson"
       /\ resp[r].status = 500)
      => r \notin tmp

\* C3 amended: after a handler operation failed (before the image was moved)
\* and the request answered 500, the staged file is absent from tmp/uploads
\* unless the catch block's own fs.remove failed.
C3_StorageFailureCleanup ==
  \A r \in Requests :
    (Done(r) /\ r \in staged /\ HandlerFailed(r) /\ failed[r] # "writeJson"
       /\ resp[r].status = 500 /\ cleanup[r] # "failed")
      => r \notin tmp

C3_Witness ==
  \E r \in Requests :
    /\ Done(r) /\ r \in staged /\ failed[r] = "move" /\ resp[r].status = 500
    /\ cleanup[r] = "removed" /\ r \notin tmp

(* C4 *)

\* r's file part, if any, passes the upload middleware's type and size gates
FilePasses(r) ==
  \/ req[r].file = NoFile
  \/ req[r].file.mimetype \in allowedTypes /\ req[r].file.size <= MAX_IMAGE_SIZE_BYTES

\* C4 as claimed: a request for a key, submitted after a request for that key
\* was answered 201, changes nothing in the key's directory and (no filesystem
\* operation of it failing) is answered 200 with existing:true.
C4_Original ==
  [][\A r \in Requests :
       (AfterCreation(r) /\ pc'[r] # pc[r]) =>
         /\ store'[KeyDir(r)] = store[KeyDir(r)]
         /\ (pc'[r] = "done" /\ failed'[r] = "none")
              => (resp'[r].status = 200 /\ resp'[r].existing)]_vars

\* C4 amended: a request for a key, submitted after a request for that key was
\* answered 201, changes nothing in the key's directory and never reports a
\* creation; it is answered 200 with existing:true when it has all required
\* fields, its file part (if any) passes the upload middleware and no
\* filesystem operation of it fails.
C4_Idempotent ==
  [][\A r \in Requests :
       (AfterCreation(r) /\ pc'[r] # pc[r]) =>
         /\ store'[KeyDir(r)] = store[KeyDir(r)]
         /\ pc'[r] = "done" =>
              /\ resp'[r].status # 201
              /\ (AllFields(r) /\ FilePasses(r) /\ failed'[r] = "none")
                   => (resp'[r].status = 200 /\ resp'[r].existing)]_vars

C4_Witness ==
  \E r \in Requests : \E q \in prior[r] :
    /\ Done(r) /\ AfterCreation(r) /\ resp[q].status = 201 /\ KeyDir(q) = KeyDir(r)
    /\ req[r].body # req[q].body /\ req[r].file # NoFile /\ req[r].file # req[q].file
    /\ resp[r].status = 200 /\ resp[r].existing

(* C5 *)

\* C5 as claimed: at most one request ever writes metadata.json for a key, and
\* the stored record is never changed or deleted afterwards.
C5_Original ==
  /\ [](\A r1, r2 \in Requests :
          (r1 # r2 /\ Wrote(r1) /\ Wrote(r2)) => KeyDir(r1) # KeyDir(r2))
  /\ [][\A d \in ProjectDirs :
          HasMetadata(d) => store'[d].metadata = store[d].metadata]_vars

\* C5 amended: two requests that both wrote metadata.json for a key overlapped
\* (neither was submitted after the other was answered); the record is never
\* deleted, and it is changed only by the write of a request for the same key
\* that was not submitted after a 201 for that key.
C5_OnlyOverlappingWrites ==
  /\ [](\A r1, r2 \in Requests :
          (r1 # r2 /\ Wrote(r1) /\ Wrote(r2) /\ KeyDir(r1) = KeyDir(r2))
            => (r1 \notin prior[r2] /\ r2 \notin prior[r1]))
  /\ [][\A d \in ProjectDirs :
          HasMetadata(d) =>
            /\ store'[d].metadata # NoMeta
            /\ store'[d].metadata # store[d].metadata =>
                 \E r \in Requests :
                   /\ pc[r] = "write" /\ pc'[r] = "respond"
                   /\ KeyDir(r) = d /\ ~AfterCreation(r)]_vars

C5_Witness ==
  \E r1, r2 \in Requests :
    /\ r1 # r2 /\ Wrote(r1) /\ Wrote(r2) /\ KeyDir(r1) = KeyDir(r2)
    /\ store[KeyDir(r1)].metadata.projectName = req[r2].body.projectName
    /\ req[r1].body.projectName # req[r2].body.projectName
    /\ Done(r1) /\ Done(r2)

(* C6 *)

GateFails(r) ==
  \/ ~AllFields(r)
  \/ BadType(r)
  \/ Oversized(r)
  \/ req[r].file = NoFile /\ existed[r] = "no"

\* C7: a completed request that a validation gate rejects, none of whose
\* filesystem operations failed, is answered 400 with success:false.
C7_GateFailuresAre400 ==
  \A r \in Requests :
    (Done(r) /\ failed[r] = "none" /\ GateFails(r))
      => (resp[r].status = 400 /\ ~resp[r].success)

(* C8 *)

\* C8 as claimed: a completed request with all required fields for a key whose
\* record existed when it was submitted is answered 200 with existing:true,
\* whatever its file part.
C8_Original ==
  \A r \in Requests :
    (Done(r) /\ AllFields(r) /\ AfterCreation(r) /\ failed[r] = "none")
      => (resp[r].status = 200 /\ resp[r].existing)

\* C8 amended: such a request is answered 200 with existing:true when it has no
\* file part or one that passes the upload middleware; a file part of
\* unsupported type or over the size limit is rejected by the upload middleware
\* before the existence check is reached.
C8_ExistingKeyResubmission ==
  \A r \in Requests :
    (Done(r) /\ AllFields(r) /\ AfterCreation(r) /\ failed[r] = "none") =>
      IF FilePasses(r)
        THEN /\ resp[r].status = 200 /\ resp[r].existing
             /\ resp[r].metadataUrl = metadataUrl(req[r].body)
        ELSE /\ ~resp[r].success /\ existed[r] = "unchecked"
             /\ resp[r].message \in {"Internal server error", "File upload error"}

C8_Witness ==
  \E r \in Requests :
    /\ Done(r) /\ AllFields(r) /\ AfterCreation(r) /\ failed[r] = "none"
    /\ Oversized(r) /\ HasMetadata(KeyDir(r))
    /\ resp[r].status = 400 /\ resp[r].message = "File upload error"

(* C9 *)

\* C9: a request with all required fields and no file part never changes the
\* storage tree; when fs.pathExists finds metadata.json it takes the
\* existing-project branch, whose response is 200 'Project already exists'
\* with existing:true; when it does not, it is answered 400 'Project image is
\* required'; no other response is sent unless the read-back fails.
C9_FilePresenceGate ==
  [][\A r \in Requests :
       (req[r].file = NoFile /\ AllFields(r) /\ pc'[r] # pc[r]) =>
         /\ store' = store
         /\ (pc[r] = "exists" /\ HasMetadata(KeyDir(r))) => pc'[r] = "readBack"
         /\ (pc[r] = "exists" /\ ~HasMetadata(KeyDir(r))) =>
              /\ pc'[r] = "done" /\ resp'[r].status = 400 /\ ~resp'[r].success
              /\ resp'[r].message = "Project image is required"
         /\ (pc[r] = "readBack" /\ pc'[r] = "done") =>
              /\ resp'[r].status = 200 /\ resp'[r].existing
              /\ resp'[r].message = "Project already exists"
         /\ (pc'[r] = "done" /\ failed'[r] = "none") =>
              \/ resp'[r].status = 200 /\ existed'[r] = "yes"
              \/ resp'[r].status = 400 /\ existed'[r] = "no"]_vars

C9_Witness ==
  \E r \in Requests :
    /\ Done(r) /\ AllFields(r) /\ req[r].file = NoFile
    /\ resp[r].status = 200 /\ resp[r].existing /\ HasMetadata(KeyDir(r))

(* C10 *)

\* C10 as claimed: a completed request that lacks a required field and carries
\* a file of unsupported type or over the size limit is answered 400 naming
\* the missing fields.
C10_Original ==
  \A r \in Requests :
    (Done(r) /\ failed[r] = "none" /\ ~AllFields(r) /\ (BadType(r) \/ Oversized(r)))
      => (resp[r].status = 400 /\ resp[r].missing # <<>>)

\* C10 amended: the upload middleware's type and size gates come first: such a
\* request is rejected with the type error (unsupported type) or the size
\* error (supported type, over the limit), names no missing field, and never
\* reaches the required-field check.
C10_UploadGatesFirst ==
  \A r \in Requests :
    (Done(r) /\ failed[r] = "none" /\ ~AllFields(r) /\ (BadType(r) \/ Oversized(r))) =>
      /\ resp[r].missing = <<>> /\ ~resp[r].success /\ r \notin staged
      /\ BadType(r) => resp[r].message = "Internal server error"
      /\ ~BadType(r) =>
           (resp[r].status = 400 /\ resp[r].message = "File upload error")

C10_Witness ==
  \E r \in Requests :
    /\ Done(r) /\ failed[r] = "none" /\ ~AllFields(r) /\ Oversized(r)
    /\ resp[r].message = "File upload error"

(* C11 *)

\* w is the only request whose fs.writeJson succeeded for its key
SoleCreator(w) ==
  \A q \in Requests : (Wrote(q) /\ KeyDir(q) = KeyDir(w)) => q = w

\* C11: every 200 'Project already exists' response for a key carries the
\* metadataUrl and the imageUrl of the 201 response of the request that created
\* the record, which is the imageUrl recorded in the stored metadata.json.
C11_StableReferences ==
  \A r, q \in Requests :
    (/\ Done(r) /\ resp[r].status = 200 /\ resp[r].existing
     /\ Done(q) /\ resp[q].status = 201 /\ KeyDir(q) = KeyDir(r) /\ SoleCreator(q))
      => /\ resp[r].metadataUrl = resp[q].metadataUrl
         /\ resp[r].imageUrl = resp[q].imageUrl
         /\ resp[r].imageUrl = store[KeyDir(r)].metadata.imageUrl

(* C12 *)

\* the required fields that are absent or empty in r's body
AbsentOrEmpty(r) ==
  {f \in {requiredFields[i] : i \in 1..Len(requiredFields)} :
     req[r].body[f] = Undefined \/ req[r].body[f] = ""}

\* the required-field check was run for r: it completed without its upload
\* being rejected or failing
FieldsChecked(r) == Done(r) /\ FilePasses(r) /\ failed[r] # "upload"

\* C12: the required-field check fails exactly when a required field is absent
\* or empty, and its 400 response then names every such field once, in the
\* order of declaration, and no field that was supplied non-empty.
C12_MissingFieldsComplete ==
  \A r \in Requests :
    FieldsChecked(r) =>
      /\ (resp[r].missing # <<>>) <=> (AbsentOrEmpty(r) # {})
      /\ resp[r].missing # <<>> =>
           /\ resp[r].status = 400 /\ ~resp[r].success
           /\ {resp[r].missing[i] : i \in 1..Len(resp[r].missing)} = AbsentOrEmpty(r)
           /\ Len(resp[r].missing) = Cardinality(AbsentOrEmpty(r))
           /\ \A i, j \in 1..Len(resp[r].missing) :
                i < j => \E k, l \in 1..Len(requiredFields) :
                           /\ k < l
                           /\ requiredFields[k] = resp[r].missing[i]
                           /\ requiredFields[l] = resp[r].missing[j]
           /\ resp[r].message = "Missing required fields: " \o Join(resp[r].missing)

C12_Witness ==
  \E r \in Requests :
    /\ FieldsChecked(r)
    /\ req[r].body.projectName = "" /\ req[r].body.tokenAddress = Undefined
    /\ req[r].body.projectDescription = "Bar" /\ req[r].body.chainID = "1"
    /\ resp[r].status = 400
    /\ resp[r].message = "Missing required fields: projectName, tokenAddress"

(* C13 *)

\* the record m holds the fields of the submitted body: the required fields and
\* the supplied optional fields as submitted, the omitted optional fields as
\* the empty string, chainID and tokenAddress those of the key
RoundTrip(m, body) ==
  /\ m.projectName = body.projectName
  /\ m.projectDescription = body.projectDescription
  /\ m.chainID = body.chainID /\ m.tokenAddress = body.tokenAddress
  /\ \A i \in 1..Len(optionalFields) :
       m[optionalFields[i]] =
         IF body[optionalFields[i]] = Undefined THEN "" ELSE body[optionalFields[i]]

\* C13 as claimed: once a request has been answered 201, the stored
\* metadata.json of its key holds the fields it submitted.
C13_Original ==
  \A r \in Requests :
    (Done(r) /\ resp[r].status = 201) => RoundTrip(store[KeyDir(r)].metadata, req[r].body)

\* C13 amended: every stored metadata.json holds the fields submitted by a
\* request that wrote it, and after a 201 it holds the fields of the answered
\* request unless another request for the same key also wrote the record.
C13_FieldRoundTrip ==
  /\ \A d \in ProjectDirs :
       HasMetadata(d) =>
         \E r \in Requests :
           Wrote(r) /\ KeyDir(r) = d /\ RoundTrip(store[d].metadata, req[r].body)
  /\ \A r \in Requests :
       (Done(r) /\ resp[r].status = 201 /\ SoleCreator(r))
         => RoundTrip(store[KeyDir(r)].metadata, req[r].body)

C13_Witness ==
  \E r \in Requests :
    /\ Done(r) /\ resp[r].status = 201 /\ SoleCreator(r)
    /\ req[r].body.website = Undefined /\ req[r].body.twitter = "@foo"
    /\ store[KeyDir(r)].metadata.website = ""
    /\ store[KeyDir(r)].metadata.twitter = "@foo"
    /\ store[KeyDir(r)].metadata.discord = "foo#1"

(* C14 *)

\* r is answered with a validation error: missing fields, unsupported type,
\* oversized file or missing image
ValidationError(r) ==
  /\ Done(r)
  /\ \/ resp[r].status = 400
     \/ resp[r].message = "Internal server error" /\ failed[r] = "none"

\* r cannot pass the validation gates: a required field is missing, or it has
\* no image, or one of an unsupported type or over the size limit
Invalid(r) == ~AllFields(r) \/ req[r].file = NoFile \/ BadType(r) \/ Oversized(r)

\* C14: a request that ends with a validation error is one that cannot pass the
\* gates, and no step of such a request creates or modifies a project
\* directory, an image file or a metadata.json.
C14_NoPartialWork ==
  /\ [](\A r \in Requests : ValidationError(r) => Invalid(r))
  /\ [][\A r \in Requests :
          (pc[r] # "idle" /\ pc'[r] # pc[r] /\ Invalid(r)) => store' = store]_vars

C14_Witness ==
  \E r, q \in Requests :
    /\ ValidationError(r) /\ resp[r].message = "Project image is required"
    /\ store[KeyDir(r)] = EmptyDir
    /\ ValidationError(q) /\ resp[q].missing # <<>> /\ q \in staged

(* C15 *)

\* the directory d holds an image and no metadata.json
Orphaned(d) == store[d].images # {} /\ store[d].metadata = NoMeta

\* C15: a request whose existence check runs while its key's directory holds an
\* image without metadata.json is told the record does not exist and goes on
\* as a creation: the file-presence gate (400 without an image), then
\* fs.ensureDir, fs.move and fs.writeJson, each reached when the one before
\* succeeded; it never takes the existing-project branch.
C15_OrphanIsAbsence ==
  [][\A r \in Requests :
       /\ (pc[r] = "exists" /\ pc'[r] # pc[r] /\ Orphaned(KeyDir(r))) =>
            /\ existed'[r] = "no"
            /\ IF r \in staged
                 THEN pc'[r] = "ensureDir"
                 ELSE /\ pc'[r] = "done" /\ resp'[r].status = 400
                      /\ resp'[r].message = "Project image is required"
       /\ (existed[r] = "no" /\ pc'[r] # pc[r]) =>
            /\ pc[r] = "ensureDir" => pc'[r] \in {"move", "catch"}
            /\ pc[r] = "move" => pc'[r] \in {"write", "catch"}
            /\ pc[r] = "write" => pc'[r] \in {"respond", "catch"}
            /\ pc'[r] = "done" => ~resp'[r].existing]_vars

C15_Witness ==
  \E r, q \in Requests :
    /\ Done(q) /\ failed[q] = "writeJson" /\ KeyDir(q) = KeyDir(r) /\ q \in prior[r]
    /\ \E f \in store[KeyDir(r)].images : f.content = q
    /\ Done(r) /\ existed[r] = "no" /\ resp[r].status = 201

(* C16 *)

\* C16: every project directory contains at most one image file (a file with
\* extension .jpg, .jpeg, .png or .gif); metadata.json, being one path, is
\* there at most once.
C16_AtMostOneImage ==
  \A d \in ProjectDirs :
    Cardinality({f \in store[d].images : toLowerCase(f.ext) \in imageExtensions}) <= 1

(* C17 *)

\* C17: a request one of whose storage operations threw is in the catch block
\* or answered; once answered it has been sent exactly one response, 500 with
\* success:false and error 'Failed to store project metadata', whether the
\* cleanup of its temp file succeeded, failed or was not needed; no request is
\* ever sent two responses.
C17_StorageFailureResponse ==
  \A r \in Requests :
    /\ sent[r] <= 1
    /\ HandlerFailed(r) =>
         /\ pc[r] \in {"catch", "done"}
         /\ pc[r] = "catch" => sent[r] = 0
         /\ Done(r) =>
              /\ sent[r] = 1
              /\ resp[r].status = 500 /\ ~resp[r].success
              /\ resp[r].message = "Failed to store project metadata"

C17_Witness ==
  \E r \in Requests :
    /\ Done(r) /\ failed[r] = "writeJson" /\ cleanup[r] = "failed"
    /\ sent[r] = 1 /\ resp[r].status = 500
    /\ resp[r].message = "Failed to store project metadata"

(* C18 *)

\* C18: in every stored record createdAt equals updatedAt.
C18_CreatedEqualsUpdated ==
  \A d \in ProjectDirs :
    HasMetadata(d) => store[d].metadata.createdAt = store[d].metadata.updatedAt

(* C19 *)

\* r and q submitted the same key: chainID and tokenAddress are both equal
SameKey(r, q) ==
  /\ req[r].body.chainID = req[q].body.chainID
  /\ req[r].body.tokenAddress = req[q].body.tokenAddress

\* C19: a record exists for a request's key only when a request with that very
\* key wrote it, and an image in the directory of a request's key was put
\* there by a request with that very key.
C19_KeyIsolation ==
  \A r \in Requests :
    (pc[r] # "idle" /\ HasKey(r)) =>
      /\ existed[r] = "yes" => \E q \in Requests : Wrote(q) /\ SameKey(q, r)
      /\ \A f \in store[KeyDir(r)].images : SameKey(f.content, r)

(* C20 *)

\* C20: whenever metadata.json exists for a key, its project directory holds
\* an image file (a file with extension .jpg, .jpeg, .png or .gif), and no
\* 200 'Project already exists' response carries imageUrl: null.
C20_MetadataImpliesImage ==
  /\ \A d \in ProjectDirs :
       HasMetadata(d) =>
         \E f \in store[d].images : toLowerCase(f.ext) \in imageExtensions
  /\ \A r \in Requests :
       (Done(r) /\ resp[r].status = 200 /\ resp[r].existing) => resp[r].imageUrl # Null

=============================================================================
